---- MODULE Spec2Model ----
(***************************************************************************)
(* Control plane write path: the Native route-config handlers, the         *)
(* Platform ApiDefinition create handler, the versioned route repository   *)
(* and the xDS snapshot refresh that follows every write.                  *)
(***************************************************************************)
EXTENDS Integers, Sequences, FiniteSets, TLC

\* ---- bounds -------------------------------------------------------------
NumReqs == 2
MaxCommits == 3
\* The largest outlier-detection duration sent, in milliseconds.
MaxMs == 2100

Reqs == 1..NumReqs
NONE == "none"

\* ---- status codes -------------------------------------------------------
StatusUnauthorized == 401
StatusForbidden == 403
StatusCreated == 201
StatusOk == 200
StatusNoContent == 204
StatusBadRequest == 400
StatusNotFound == 404
StatusConflict == 409
StatusInternal == 500

\* ---- names --------------------------------------------------------------
\* A resource name is either written by a client (id = 0) or derived from a
\* generated id by format!("{}-suffix", id).
Named(text) == [id |-> 0, text |-> text]
format_name(id, suffix) == [id |-> id, text |-> suffix]
NoName == Named(NONE)

PrimaryRoutes == Named("primary-routes")
DefaultGatewayRoutes == Named("default-gateway-routes")
Names == {PrimaryRoutes, DefaultGatewayRoutes}

is_default_gateway_route(name) == name = DefaultGatewayRoutes

\* ---- route rules --------------------------------------------------------
PathTypes == {"exact", "prefix", "regex", "template"}
ActionTypes == {"forward", "weighted", "redirect"}

\* One rule of a RouteDefinition, in its one virtual host: the tag of its
\* path match, the tag of its action, for Forward whether prefixRewrite /
\* templateRewrite are Some, the cluster (Forward) or the weighted clusters
\* (Weighted), the header and query-parameter matches, and the
\* typed_per_filter_config keys of the rule and of the virtual host.
\* The string payload of the path match is a sequence of path segments.
PathValues == { <<"api">> }

WeightedClusters ==
  << [name |-> "api-cluster", weight |-> 60, typed_per_filter_config |-> {}],
     [name |-> "shadow", weight |-> 40, typed_per_filter_config |-> {}] >>

RouteRule(path, value, action, prefix_rewrite, template_rewrite) ==
  [path |-> path, value |-> value, action |-> action,
   prefix_rewrite |-> prefix_rewrite, template_rewrite |-> template_rewrite,
   cluster |-> IF action = "forward" THEN "api-cluster" ELSE "",
   weighted |-> IF action = "weighted" THEN WeightedClusters ELSE <<>>,
   headers |-> <<>>, query_parameters |-> <<>>,
   typed_per_filter_config |-> {}, vhost_typed_per_filter_config |-> {}]

RouteRules ==
  { RouteRule(r.path, r.value, r.action, r.prefix_rewrite, r.template_rewrite) :
      r \in { x \in [path : PathTypes, value : PathValues,
                      action : ActionTypes,
                      prefix_rewrite : BOOLEAN, template_rewrite : BOOLEAN] :
                x.action # "forward"
                  => (~x.prefix_rewrite /\ ~x.template_rewrite) } }

\* "No rule": a definition without routes.
NoRule == RouteRule(NONE, <<>>, NONE, FALSE, FALSE)
SampleRule == RouteRule("prefix", <<"api">>, "forward", FALSE, FALSE)
TemplateRule == RouteRule("template", <<"api">>, "forward", FALSE, TRUE)
BadTemplateRule == RouteRule("template", <<"api">>, "forward", TRUE, FALSE)

\* S3: a Weighted action whose first cluster carries a local_ratelimit scoped
\* filter config, in a virtual host with its own scoped filter config, behind
\* a Regex path and a header match.
ScopedWeightedRule ==
  [RouteRule("regex", <<"api">>, "weighted", FALSE, FALSE) EXCEPT
     !.weighted[1].typed_per_filter_config = {"local_ratelimit"},
     !.vhost_typed_per_filter_config = {"cors"},
     !.headers = <<"x-tenant">>]

\* A Redirect behind an Exact path and a query-parameter match, with a scoped
\* filter config on the rule.
ScopedRedirectRule ==
  [RouteRule("exact", <<"api">>, "redirect", FALSE, FALSE) EXCEPT
     !.typed_per_filter_config = {"local_ratelimit"},
     !.query_parameters = <<"debug">>]

\* The payloads of the read-after-write clients: every path match and every
\* action, with and without match lists and scoped filter configs.
StoredRules ==
  {SampleRule, TemplateRule, ScopedWeightedRule, ScopedRedirectRule}

\* What the writer sends: the payloads above and a definition without routes.
SentRules == StoredRules \cup {NoRule}

\* The rules concurrent clients send; a single request draws from RouteRules.
ConcurrentRules == {SampleRule, TemplateRule}

\* validate_route_payload with its first two match arms in the other order.
validate_route_payload_reordered(rule) ==
  IF rule = NoRule
    THEN FALSE
  ELSE IF rule.path = "template" /\ rule.action = "forward"
    THEN TRUE
  ELSE IF rule.path = "template" /\ rule.action = "forward" /\ rule.prefix_rewrite
    THEN FALSE
  ELSE IF rule.path = "template"
    THEN FALSE
  ELSE IF rule.action = "forward" /\ rule.template_rewrite
    THEN FALSE
  ELSE TRUE

\* validate_route_payload: the definition and its virtual host must hold at
\* least one route; then the cross-field match, arm by arm.
validate_route_payload(rule) ==
  IF rule = NoRule
    THEN FALSE
  ELSE IF rule.path = "template" /\ rule.action = "forward" /\ rule.prefix_rewrite
    THEN FALSE
  ELSE IF rule.path = "template" /\ rule.action = "forward"
    THEN TRUE
  ELSE IF rule.path = "template"
    THEN FALSE
  ELSE IF rule.action = "forward" /\ rule.template_rewrite
    THEN FALSE
  ELSE TRUE

\* summarize_route renders a Template path match as a plain value.
summarize_route_plain_template(rule) ==
  << CASE rule.path \in {"exact", "prefix", "template"} -> rule.value
       [] rule.path = "regex" -> <<"regex:">> \o rule.value
       [] OTHER -> <<"*">>,
     CASE rule.action = "forward" -> rule.cluster
       [] rule.action = "weighted" ->
            IF rule.weighted = <<>> THEN "" ELSE rule.weighted[1].name
       [] rule.action = "redirect" -> "__redirect__"
       [] OTHER -> "unknown" >>

\* summarize_route: (path_prefix, cluster_summary) of the first route, with
\* the fallbacks of a definition without routes.
summarize_route(rule) ==
  << CASE rule.path \in {"exact", "prefix"} -> rule.value
       [] rule.path = "regex" -> <<"regex:">> \o rule.value
       [] rule.path = "template" -> <<"template:">> \o rule.value
       [] OTHER -> <<"*">>,
     CASE rule.action = "forward" -> rule.cluster
       [] rule.action = "weighted" ->
            IF rule.weighted = <<>> THEN "" ELSE rule.weighted[1].name
       [] rule.action = "redirect" -> "__redirect__"
       [] OTHER -> "unknown" >>

\* ---- to_xds_config / from_xds_config -------------------------------------
\* Option<Vec<_>>: None for an empty list.
NoneIfEmpty(list) ==
  IF list = <<>> THEN [some |-> FALSE, value |-> <<>>]
  ELSE [some |-> TRUE, value |-> list]

unwrap_or_default(option) == IF option.some THEN option.value ELSE <<>>

PathMatch_to_xds_config(path) ==
  CASE path = "exact" -> "Exact"
    [] path = "prefix" -> "Prefix"
    [] path = "regex" -> "Regex"
    [] path = "template" -> "Template"

PathMatch_from_xds_config(kind) ==
  CASE kind = "Exact" -> "exact"
    [] kind = "Prefix" -> "prefix"
    [] kind = "Regex" -> "regex"
    [] kind = "Template" -> "template"

RouteAction_to_xds_config(rule) ==
  CASE rule.action = "forward" ->
         [kind |-> "Cluster", name |-> rule.cluster,
          prefix_rewrite |-> rule.prefix_rewrite,
          path_template_rewrite |-> rule.template_rewrite]
    [] rule.action = "weighted" ->
         [kind |-> "WeightedClusters",
          clusters |-> [i \in DOMAIN rule.weighted |->
                          [name |-> rule.weighted[i].name,
                           weight |-> rule.weighted[i].weight,
                           typed_per_filter_config |->
                             rule.weighted[i].typed_per_filter_config]]]
    [] rule.action = "redirect" -> [kind |-> "Redirect"]

\* The XdsRouteConfig of a definition: its virtual host and its rule.
to_xds_config(rule) ==
  [path |-> [kind |-> PathMatch_to_xds_config(rule.path), value |-> rule.value],
   headers |-> NoneIfEmpty(rule.headers),
   query_parameters |-> NoneIfEmpty(rule.query_parameters),
   action |-> RouteAction_to_xds_config(rule),
   typed_per_filter_config |-> rule.typed_per_filter_config,
   vhost_typed_per_filter_config |-> rule.vhost_typed_per_filter_config,
   gateway_tags |-> {}]

\* from_xds_config that rebuilds weighted clusters without their
\* typed_per_filter_config.
from_xds_config_unscoped_clusters(config) ==
  [path |-> PathMatch_from_xds_config(config.path.kind),
   value |-> config.path.value,
   action |-> CASE config.action.kind = "Cluster" -> "forward"
                [] config.action.kind = "WeightedClusters" -> "weighted"
                [] config.action.kind = "Redirect" -> "redirect",
   prefix_rewrite |-> IF config.action.kind = "Cluster"
                        THEN config.action.prefix_rewrite ELSE FALSE,
   template_rewrite |-> IF config.action.kind = "Cluster"
                          THEN config.action.path_template_rewrite ELSE FALSE,
   cluster |-> IF config.action.kind = "Cluster"
                 THEN config.action.name ELSE "",
   weighted |-> IF config.action.kind = "WeightedClusters"
                  THEN [i \in DOMAIN config.action.clusters |->
                          [name |-> config.action.clusters[i].name,
                           weight |-> config.action.clusters[i].weight,
                           typed_per_filter_config |-> {}]]
                  ELSE <<>>,
   headers |-> unwrap_or_default(config.headers),
   query_parameters |-> unwrap_or_default(config.query_parameters),
   typed_per_filter_config |-> config.typed_per_filter_config,
   vhost_typed_per_filter_config |-> config.vhost_typed_per_filter_config]

from_xds_config(config) ==
  [path |-> PathMatch_from_xds_config(config.path.kind),
   value |-> config.path.value,
   action |-> CASE config.action.kind = "Cluster" -> "forward"
                [] config.action.kind = "WeightedClusters" -> "weighted"
                [] config.action.kind = "Redirect" -> "redirect",
   prefix_rewrite |-> IF config.action.kind = "Cluster"
                        THEN config.action.prefix_rewrite ELSE FALSE,
   template_rewrite |-> IF config.action.kind = "Cluster"
                          THEN config.action.path_template_rewrite ELSE FALSE,
   cluster |-> IF config.action.kind = "Cluster"
                 THEN config.action.name ELSE "",
   weighted |-> IF config.action.kind = "WeightedClusters"
                  THEN [i \in DOMAIN config.action.clusters |->
                          [name |-> config.action.clusters[i].name,
                           weight |-> config.action.clusters[i].weight,
                           typed_per_filter_config |->
                             config.action.clusters[i].typed_per_filter_config]]
                  ELSE <<>>,
   headers |-> unwrap_or_default(config.headers),
   query_parameters |-> unwrap_or_default(config.query_parameters),
   typed_per_filter_config |-> config.typed_per_filter_config,
   vhost_typed_per_filter_config |-> config.vhost_typed_per_filter_config]

\* Removes the gateway-import metadata of a stored configuration.
strip_gateway_tags(value) == [value EXCEPT !.gateway_tags = {}]

\* "No configuration": the configuration of "no row".
NoConfiguration ==
  [path |-> [kind |-> NONE, value |-> <<>>],
   headers |-> NoneIfEmpty(<<>>), query_parameters |-> NoneIfEmpty(<<>>),
   action |-> [kind |-> NONE],
   typed_per_filter_config |-> {}, vhost_typed_per_filter_config |-> {},
   gateway_tags |-> {}]

\* ---- Platform ApiDefinition ---------------------------------------------
\* basePath and the route paths are sequences of path segments, so that
\* basePath ++ path is sequence concatenation.
\* Option<u32> of policies.timeout.request.
NoTimeout == [some |-> FALSE, value |-> 0]
TimeoutSeconds == {5, 30}
Timeouts == {NoTimeout} \cup { [some |-> TRUE, value |-> t] : t \in TimeoutSeconds }

\* Option<ApiPolicies>, by its timeout.request: None, or Some with or without
\* a request timeout.
NoApiPolicies == [some |-> FALSE, timeout_request |-> NoTimeout]
ApiPolicies ==
  {NoApiPolicies} \cup { [some |-> TRUE, timeout_request |-> t] : t \in Timeouts }

\* An ApiRoute: its path, how many methods it lists and its policies.
ApiRoute(path, methods, policies) ==
  [path |-> path, methods |-> methods, policies |-> policies]

RoutePaths == << <<"list">>, <<"id">> >>

\* An ApiDefinition: the number of upstream endpoints, the routes and the
\* global policies.
ApiDefinition(endpoints, api_routes, policies) ==
  [name |-> "users-api", base_path |-> <<"api", "users">>,
   upstream |-> [service |-> "users-backend", endpoints |-> endpoints,
                 tls |-> FALSE, load_balancing |-> "ROUND_ROBIN"],
   routes |-> api_routes, policies |-> policies]

\* The payloads of the Native round trip: zero, one or two well-formed routes.
ApiDefinitions ==
  { ApiDefinition(1, [i \in 1..n |-> ApiRoute(RoutePaths[i], 1, NoApiPolicies)],
                  NoApiPolicies) : n \in 0..Len(RoutePaths) }

\* The payloads of the lowering: any number of endpoints, routes with and
\* without methods and policies, any global policies.
PlatformApis ==
  { ApiDefinition(endpoints,
                  [i \in 1..n |-> ApiRoute(RoutePaths[i], rs[i].methods,
                                           rs[i].policies)],
                  policies) :
      endpoints \in 0..1, policies \in ApiPolicies, n \in 0..Len(RoutePaths),
      rs \in [DOMAIN RoutePaths -> [methods : 0..1, policies : ApiPolicies]] }

\* api.validate(): the derive checks the fields of ApiDefinition itself, of
\* which only `routes` can fail here; upstream and the routes carry no
\* #[validate(nested)].
ApiDefinition_validate(api) == Len(api.routes) >= 1

\* policies.timeout.request of an Option<ApiPolicies>.
timeout_request(policies) ==
  IF policies.some THEN policies.timeout_request ELSE NoTimeout

api_to_cluster(api, cluster_name) ==
  [name |-> cluster_name, service_name |-> api.upstream.service,
   endpoints |-> api.upstream.endpoints,
   connect_timeout_seconds |-> timeout_request(api.policies),
   use_tls |-> api.upstream.tls,
   lb_policy |-> api.upstream.load_balancing]

api_to_route_config(api, route_config_name) ==
  [name |-> route_config_name, virtual_host |-> api.name,
   domains |-> <<"*">>,
   routes |-> [i \in DOMAIN api.routes |->
                 [path |-> "prefix",
                  value |-> api.base_path \o api.routes[i].path,
                  action |-> "forward",
                  cluster |-> Named(api.upstream.service),
                  timeout_seconds |-> timeout_request(api.policies)]]]

\* The locals _cluster_config and _route_config before the handler ran.
NoDerived ==
  [cluster |-> [name |-> NoName], route_config |-> [name |-> NoName]]

VARIABLES
  req,          \* per request slot: the handler's position and locals
  routes,       \* the rows of the routes table
  log,          \* the committed writes, in commit order
  snapshot,     \* the xDS snapshot being served
  lock,         \* the slot whose refresh is in progress, 0 when free
  clusters      \* the names in the clusters table

vars == <<req, routes, log, snapshot, lock, clusters>>

\* "No row": what get_by_name yields for NotFound.
NoRow ==
  [id |-> 0, name |-> NoName, version |-> 0, path_prefix |-> <<>>,
   cluster_name |-> "", configuration |-> NoConfiguration]
NoStored == [id |-> 0, version |-> 0]
NoBody == [name |-> NoName, rule |-> NoRule]
\* "No response body": what a request carries before it is answered.
NoResponse ==
  [name |-> NoName, path_prefix |-> <<>>, cluster_targets |-> "",
   config |-> NoRule]

EmptySnapshot == [at |-> 0, view |-> [n \in Names |-> NoRow]]

IdleReq ==
  [pc |-> "idle", kind |-> NONE, name |-> NoName, body |-> NoBody,
   existing |-> NoStored, stored |-> NoStored, buf |-> EmptySnapshot, status |-> 0,
   startAt |-> 0, commitAt |-> 0, refreshAt |-> 0,
   apiId |-> 0, retry |-> FALSE, listed |-> {}, readAt |-> 0,
   method |-> NONE, header |-> [bearer |-> FALSE, scopes |-> {}],
   context |-> [present |-> FALSE, scopes |-> {}],
   consulted |-> FALSE, layer |-> 0, response |-> NoResponse,
   derived |-> NoDerived, cancelled |-> FALSE,
   lowering |-> [via |-> NONE, round |-> 0],
   imported |-> [routes |-> <<>>,
                 policies |-> [some |-> FALSE, rate_limit |-> FALSE,
                               authentication |-> FALSE, cors |-> FALSE],
                 warnings |-> <<>>]]

\* ---- repository ---------------------------------------------------------
RowsOf(rows, name) == { row \in rows : row.name = name }
RowsOfId(rows, id) == { row \in rows : row.id = id }

Latest(rs) == CHOOSE row \in rs : \A other \in rs : other.version <= row.version

\* get_by_name: the latest version of the name, or NoRow (NotFound).
get_by_name(rows, name) ==
  IF RowsOf(rows, name) = {} THEN NoRow ELSE Latest(RowsOf(rows, name))

\* Ids are uuids: an id never seen by any row or by any handler in flight.
IdsInUse ==
  { row.id : row \in routes }
    \cup { req[r].existing.id : r \in Reqs }
    \cup { req[r].stored.id : r \in Reqs }
    \cup { req[r].apiId : r \in Reqs }

new_id ==
  CHOOSE i \in 1..(Cardinality(IdsInUse) + 1) :
    i \notin IdsInUse /\ \A j \in 1..(i - 1) : j \in IdsInUse

\* create: Conflict if the name exists, else a row at version 1.
repo_create_conflict(rows, name) == RowsOf(rows, name) # {}
repo_create(rows, id, name, summary, configuration) ==
  rows \cup { [id |-> id, name |-> name, version |-> 1,
               path_prefix |-> summary[1], cluster_name |-> summary[2],
               configuration |-> configuration] }

\* update: NotFound if the id is unknown, else a new row at previous + 1.
repo_update_row_no_increment(rows, id, summary, configuration) ==
  LET previous == Latest(RowsOfId(rows, id))
  IN  [id |-> id, name |-> previous.name, version |-> previous.version,
       path_prefix |-> summary[1], cluster_name |-> summary[2],
       configuration |-> configuration]
repo_update_row(rows, id, summary, configuration) ==
  LET previous == Latest(RowsOfId(rows, id))
  IN  [id |-> id, name |-> previous.name, version |-> previous.version + 1,
       path_prefix |-> summary[1], cluster_name |-> summary[2],
       configuration |-> configuration]
repo_update(rows, id, summary, configuration) ==
  rows \cup { repo_update_row(rows, id, summary, configuration) }

\* delete that removes only the latest version of the id.
repo_delete_latest(rows, id) == rows \ { Latest(RowsOfId(rows, id)) }

\* delete: removes all versions of the id.
repo_delete(rows, id) == rows \ RowsOfId(rows, id)

\* list: the latest version per name.
repo_list(rows) ==
  { Latest(RowsOf(rows, name)) : name \in { row.name : row \in rows } }

\* What a refresh reads: the latest row of every name.
View(rows) == [n \in Names |-> get_by_name(rows, n)]

\* ---- requests -----------------------------------------------------------
WriteKinds == {"create", "update", "delete"}

\* Writes that were accepted and have not yet reached the repository.
PendingWrites ==
  { r \in Reqs : req[r].kind \in WriteKinds
                 /\ req[r].pc \in {"start", "validated", "fetched"} }

SameRequest(old, kind, name, body) ==
  old.kind = kind /\ old.name = name /\ old.body = body

RefreshFailed(q) ==
  q.pc = "done" /\ q.commitAt > 0 /\ q.status = StatusInternal

\* A client sends a request.  A request that repeats the slot's previous
\* one, whose refresh failed, is a retry.
NewReq(kind, name, body, startAt, retry) ==
  [IdleReq EXCEPT !.pc = "start", !.kind = kind, !.name = name,
                  !.body = body, !.startAt = startAt, !.retry = retry]

Arrive(r, kind, name, body) ==
  /\ req[r].pc \in {"idle", "done"}
  /\ req' = [req EXCEPT ![r] =
       NewReq(kind, name, body, Len(log),
              RefreshFailed(req[r])
                /\ SameRequest(req[r], kind, name, body))]
  /\ UNCHANGED <<routes, log, snapshot, lock, clusters>>

HasBudget == Len(log) + Cardinality(PendingWrites) < MaxCommits

post_route_config(r, names, rules) ==
  /\ HasBudget
  /\ \E name \in names, rule \in rules :
       Arrive(r, "create", name, [name |-> name, rule |-> rule])

\* PUT /{name} with the same name in the body.
put_route_config(r, names, rules) ==
  /\ HasBudget
  /\ \E name \in names, rule \in rules :
       Arrive(r, "update", name, [name |-> name, rule |-> rule])

delete_route_config(r, names) ==
  /\ HasBudget
  /\ \E name \in names : Arrive(r, "delete", name, NoBody)

post_platform_api(r) ==
  \E api \in ApiDefinitions : Arrive(r, "platform_create", NoName, api)

\* ---- responses ----------------------------------------------------------
Respond(r, status) ==
  req' = [req EXCEPT ![r].pc = "done", ![r].status = status,
                     ![r].existing = NoStored]

Commit(r, op, name) ==
  log' = Append(log, [op |-> op, name |-> name, by |-> r])

success_status(kind) ==
  CASE kind = "create" -> StatusCreated
    [] kind = "update" -> StatusOk
    [] kind = "delete" -> StatusNoContent

\* A handler that logs the refresh error and answers as if it had succeeded.
refresh_result_status_swallow(kind, ok) == success_status(kind)

\* `refresh_routes_from_repository().await.map_err(..)?` and the Ok(..)
\* that follows it.
refresh_result_status(kind, ok) ==
  IF ok THEN success_status(kind) ELSE StatusInternal

\* ---- create_route_handler -----------------------------------------------
create_route_validate(r) ==
  /\ req[r].pc = "start" /\ req[r].kind = "create"
  /\ IF validate_route_payload(req[r].body.rule)
       THEN req' = [req EXCEPT ![r].pc = "validated"]
       ELSE Respond(r, StatusBadRequest)
  /\ UNCHANGED <<routes, log, snapshot, lock, clusters>>

create_route_commit(r) ==
  /\ req[r].pc = "validated" /\ req[r].kind = "create"
  /\ IF repo_create_conflict(routes, req[r].body.name)
       THEN /\ Respond(r, StatusConflict)
            /\ UNCHANGED <<routes, log>>
       ELSE /\ routes' = repo_create(routes, new_id, req[r].body.name,
                                     summarize_route(req[r].body.rule),
                                     to_xds_config(req[r].body.rule))
            /\ Commit(r, "create", req[r].body.name)
            /\ req' = [req EXCEPT
                 ![r].pc = "committed",
                 ![r].commitAt = Len(log) + 1,
                 ![r].stored = [id |-> new_id, version |-> 1]]
  /\ UNCHANGED <<snapshot, lock, clusters>>

\* ---- update_route_handler -----------------------------------------------
update_route_validate(r) ==
  /\ req[r].pc = "start" /\ req[r].kind = "update"
  /\ IF ~validate_route_payload(req[r].body.rule)
       THEN Respond(r, StatusBadRequest)
     ELSE IF req[r].body.name # req[r].name
       THEN Respond(r, StatusBadRequest)
     ELSE req' = [req EXCEPT ![r].pc = "validated"]
  /\ UNCHANGED <<routes, log, snapshot, lock, clusters>>

\* An update that creates the name it does not find.
update_route_fetch_upsert(r) ==
  /\ req[r].pc = "validated" /\ req[r].kind = "update"
  /\ LET existing == get_by_name(routes, req[r].body.name)
     IN  IF existing = NoRow
           THEN /\ routes' = repo_create(routes, new_id, req[r].body.name,
                                         summarize_route(req[r].body.rule),
                                         to_xds_config(req[r].body.rule))
                /\ Commit(r, "update", req[r].body.name)
                /\ req' = [req EXCEPT
                     ![r].pc = "committed",
                     ![r].commitAt = Len(log) + 1,
                     ![r].stored = [id |-> new_id, version |-> 1]]
           ELSE /\ req' = [req EXCEPT
                     ![r].pc = "fetched",
                     ![r].existing = [id |-> existing.id,
                                      version |-> existing.version]]
                /\ UNCHANGED <<routes, log>>
  /\ UNCHANGED <<snapshot, lock, clusters>>

update_route_fetch(r) ==
  /\ req[r].pc = "validated" /\ req[r].kind = "update"
  /\ LET existing == get_by_name(routes, req[r].body.name)
     IN  IF existing = NoRow
           THEN Respond(r, StatusNotFound)
           ELSE req' = [req EXCEPT
                  ![r].pc = "fetched",
                  ![r].existing = [id |-> existing.id,
                                   version |-> existing.version]]
  /\ UNCHANGED <<routes, log, snapshot, lock, clusters>>

\* An update that derives the new version from the record it fetched.
update_route_commit_stale(r) ==
  /\ req[r].pc = "fetched" /\ req[r].kind = "update"
  /\ IF RowsOfId(routes, req[r].existing.id) = {}
       THEN /\ Respond(r, StatusNotFound)
            /\ UNCHANGED <<routes, log>>
       ELSE LET updated ==
                  [id |-> req[r].existing.id, name |-> req[r].body.name,
                   version |-> req[r].existing.version + 1,
                   path_prefix |-> summarize_route(req[r].body.rule)[1],
                   cluster_name |-> summarize_route(req[r].body.rule)[2],
                   configuration |-> to_xds_config(req[r].body.rule)]
            IN  /\ routes' = routes \cup {updated}
                /\ Commit(r, "update", updated.name)
                /\ req' = [req EXCEPT
                     ![r].pc = "committed",
                     ![r].existing = NoStored,
                     ![r].commitAt = Len(log) + 1,
                     ![r].stored = [id |-> updated.id,
                                    version |-> updated.version]]
  /\ UNCHANGED <<snapshot, lock, clusters>>

update_route_commit(r) ==
  /\ req[r].pc = "fetched" /\ req[r].kind = "update"
  /\ IF RowsOfId(routes, req[r].existing.id) = {}
       THEN /\ Respond(r, StatusNotFound)
            /\ UNCHANGED <<routes, log>>
       ELSE LET updated == repo_update_row(routes, req[r].existing.id,
                                           summarize_route(req[r].body.rule),
                                           to_xds_config(req[r].body.rule))
            IN  /\ routes' = repo_update(routes, req[r].existing.id,
                                         summarize_route(req[r].body.rule),
                                         to_xds_config(req[r].body.rule))
                /\ Commit(r, "update", updated.name)
                /\ req' = [req EXCEPT
                     ![r].pc = "committed",
                     ![r].existing = NoStored,
                     ![r].commitAt = Len(log) + 1,
                     ![r].stored = [id |-> updated.id,
                                    version |-> updated.version]]
  /\ UNCHANGED <<snapshot, lock, clusters>>

\* ---- delete_route_handler -----------------------------------------------
\* A delete that does not look at the name.
delete_route_check_unguarded(r) ==
  /\ req[r].pc = "start" /\ req[r].kind = "delete"
  /\ req' = [req EXCEPT ![r].pc = "validated"]
  /\ UNCHANGED <<routes, log, snapshot, lock, clusters>>

delete_route_check(r) ==
  /\ req[r].pc = "start" /\ req[r].kind = "delete"
  /\ IF is_default_gateway_route(req[r].name)
       THEN Respond(r, StatusConflict)
       ELSE req' = [req EXCEPT ![r].pc = "validated"]
  /\ UNCHANGED <<routes, log, snapshot, lock, clusters>>

delete_route_fetch(r) ==
  /\ req[r].pc = "validated" /\ req[r].kind = "delete"
  /\ LET existing == get_by_name(routes, req[r].name)
     IN  IF existing = NoRow
           THEN Respond(r, StatusNotFound)
           ELSE req' = [req EXCEPT
                  ![r].pc = "fetched",
                  ![r].existing = [id |-> existing.id,
                                   version |-> existing.version]]
  /\ UNCHANGED <<routes, log, snapshot, lock, clusters>>

delete_route_commit(r) ==
  /\ req[r].pc = "fetched" /\ req[r].kind = "delete"
  /\ IF RowsOfId(routes, req[r].existing.id) = {}
       THEN /\ Respond(r, StatusNotFound)
            /\ UNCHANGED <<routes, log>>
       ELSE /\ routes' = repo_delete(routes, req[r].existing.id)
            /\ Commit(r, "delete", req[r].name)
            /\ req' = [req EXCEPT ![r].pc = "committed",
                                  ![r].existing = NoStored,
                                  ![r].commitAt = Len(log) + 1]
  /\ UNCHANGED <<snapshot, lock, clusters>>

\* ---- get_route_handler / list_routes_handler ----------------------------
route_response_from_data(data) ==
  [name |-> data.name, path_prefix |-> data.path_prefix,
   cluster_targets |-> data.cluster_name,
   config |-> from_xds_config(strip_gateway_tags(data.configuration))]

\* GET /route-configs/{name}: one repository read, answered at once.
get_route_handler(r) ==
  /\ req[r].pc \in {"idle", "done"}
  /\ \E name \in Names :
       LET route == get_by_name(routes, name)
       IN  req' = [req EXCEPT ![r] =
             [IdleReq EXCEPT
                !.pc = "done", !.kind = "get", !.name = name,
                !.startAt = Len(log), !.readAt = Len(log),
                !.status = IF route = NoRow THEN StatusNotFound ELSE StatusOk,
                !.response = IF route = NoRow THEN NoResponse
                             ELSE route_response_from_data(route)]]
  /\ UNCHANGED <<routes, log, snapshot, lock, clusters>>

\* GET /route-configs: one repository read, answered at once.
list_routes_handler(r) ==
  /\ req[r].pc \in {"idle", "done"}
  /\ req' = [req EXCEPT ![r] =
       [IdleReq EXCEPT
          !.pc = "done", !.kind = "list",
          !.startAt = Len(log), !.readAt = Len(log), !.status = StatusOk,
          !.listed = { route_response_from_data(row) :
                         row \in repo_list(routes) }]]
  /\ UNCHANGED <<routes, log, snapshot, lock, clusters>>

\* ---- refresh_routes_from_repository -------------------------------------
refresh_may_start_unserialized(r) == TRUE

\* Refreshes are serialized: one starts only when no other is in progress.
refresh_may_start(r) == lock = 0

refresh_read(r) ==
  /\ req[r].pc = "committed"
  /\ refresh_may_start(r)
  /\ req' = [req EXCEPT
       ![r].pc = "refreshing",
       ![r].buf = [at |-> Len(log), view |-> View(routes)]]
  /\ lock' = r
  /\ UNCHANGED <<routes, log, snapshot, clusters>>

\* A failed refresh that also undoes the row the request wrote.
refresh_fail_rollback(r) ==
  /\ req[r].pc = "committed"
  /\ Respond(r, refresh_result_status(req[r].kind, FALSE))
  /\ routes' = { row \in routes :
                   ~(row.id = req[r].stored.id
                     /\ row.version = req[r].stored.version) }
  /\ UNCHANGED <<log, snapshot, lock, clusters>>

\* The refresh returns Err: the snapshot is left as it was.
refresh_fail(r) ==
  /\ req[r].pc = "committed"
  /\ Respond(r, refresh_result_status(req[r].kind, FALSE))
  /\ UNCHANGED <<routes, log, snapshot, lock, clusters>>

refresh_install(r) ==
  /\ req[r].pc = "refreshing"
  /\ snapshot' = req[r].buf
  /\ lock' = IF lock = r THEN 0 ELSE lock
  /\ req' = [req EXCEPT
       ![r].pc = "done",
       ![r].status = refresh_result_status(req[r].kind, TRUE),
       ![r].refreshAt = req[r].buf.at,
       ![r].buf = EmptySnapshot]
  /\ UNCHANGED <<routes, log, clusters>>

\* ---- cancellation --------------------------------------------------------
\* The positions at which a route-config handler is suspended in an await:
\* a repository call or the refresh.
AwaitPoints == {"validated", "fetched", "committed", "refreshing"}

\* The client disconnects: the handler's future is dropped where it is
\* suspended, answers nothing and releases the refresh lock it holds.
cancel(r) ==
  /\ req[r].kind \in WriteKinds
  /\ req[r].pc \in AwaitPoints
  /\ req' = [req EXCEPT ![r].pc = "done", ![r].cancelled = TRUE,
                        ![r].existing = NoStored]
  /\ lock' = IF lock = r THEN 0 ELSE lock
  /\ UNCHANGED <<routes, log, snapshot, clusters>>

\* ---- create_api_definition_handler --------------------------------------
create_api_definition_handler(r) ==
  /\ req[r].pc = "start" /\ req[r].kind = "platform_create"
  /\ IF ~ApiDefinition_validate(req[r].body)
       THEN Respond(r, StatusBadRequest)
       ELSE req' = [req EXCEPT
              ![r].pc = "done",
              ![r].status = StatusCreated,
              ![r].apiId = new_id,
              ![r].derived =
                [cluster |->
                   api_to_cluster(req[r].body, format_name(new_id, "-cluster")),
                 route_config |->
                   api_to_route_config(req[r].body,
                                       format_name(new_id, "-routes"))]]
  /\ UNCHANGED <<routes, log, snapshot, lock, clusters>>

\* ---- Platform ApiDefinition read, update and delete --------------------
PlatformFollowUps ==
  {"platform_get", "platform_list", "platform_update", "platform_delete"}

\* A client that got 201 with an id from POST /platform/apis uses that id:
\* GET, PUT or DELETE /platform/apis/{id}, or GET /platform/apis.
platform_follow_up(r) ==
  /\ req[r].pc \in {"idle", "done"}
  /\ \E q \in Reqs, kind \in PlatformFollowUps, api \in ApiDefinitions :
       /\ q # r
       /\ req[q].pc = "done" /\ req[q].kind = "platform_create"
       /\ req[q].status = StatusCreated
       /\ req' = [req EXCEPT ![r] =
            [NewReq(kind, NoName,
                    IF kind = "platform_update" THEN api ELSE req[q].body,
                    Len(log), FALSE)
               EXCEPT !.apiId = req[q].apiId]]
  /\ UNCHANGED <<routes, log, snapshot, lock, clusters>>

\* `let mut results = vec![]`, filtered and paginated: always empty.
list_api_definitions_handler(r) ==
  /\ req[r].pc = "start" /\ req[r].kind = "platform_list"
  /\ req' = [req EXCEPT ![r].pc = "done", ![r].status = StatusOk,
                          ![r].listed = {}]
  /\ UNCHANGED <<routes, log, snapshot, lock, clusters>>

get_api_definition_by_id_handler(r) ==
  /\ req[r].pc = "start" /\ req[r].kind = "platform_get"
  /\ Respond(r, StatusNotFound)
  /\ UNCHANGED <<routes, log, snapshot, lock, clusters>>

update_api_definition_handler(r) ==
  /\ req[r].pc = "start" /\ req[r].kind = "platform_update"
  /\ IF ~ApiDefinition_validate(req[r].body)
       THEN Respond(r, StatusBadRequest)
       ELSE Respond(r, StatusNotFound)
  /\ UNCHANGED <<routes, log, snapshot, lock, clusters>>

delete_api_definition_handler(r) ==
  /\ req[r].pc = "start" /\ req[r].kind = "platform_delete"
  /\ Respond(r, StatusNotFound)
  /\ UNCHANGED <<routes, log, snapshot, lock, clusters>>

\* ---- Platform services over the Native cluster store --------------------
PaymentService == Named("payment-service")
UserService == Named("user-service")
ServiceNames == {PaymentService, UserService}

LoadBalancingStrategies == {"RoundRobin", "LeastRequest"}

\* A ServiceDefinition: its name, its strategy and how many endpoints it has.
ServiceDefinitions ==
  { d \in [name : ServiceNames, load_balancing : LoadBalancingStrategies,
            endpoints : 0..1] :
      d.endpoints = 0 => d.load_balancing = "RoundRobin" }

\* #[validate(length(min = 1))] on endpoints; the names sent are not empty.
ServiceDefinition_validate(service) == service.endpoints >= 1

load_balancing_to_string(strategy) ==
  CASE strategy = "RoundRobin" -> "ROUND_ROBIN"
    [] strategy = "LeastRequest" -> "LEAST_REQUEST"
    [] strategy = "Random" -> "RANDOM"
    [] strategy = "RingHash" -> "RING_HASH"
    [] strategy = "Maglev" -> "MAGLEV"

service_to_cluster(service) ==
  [name |-> service.name,
   lb_policy |-> load_balancing_to_string(service.load_balancing),
   endpoints |-> service.endpoints]

\* The CreateClusterBody a Native client sends.
ClusterBodies ==
  [name : ServiceNames, lb_policy : {"ROUND_ROBIN"}, endpoints : {1}]

ClusterNames == { c.name : c \in clusters }
ClustersOf(name) == { c \in clusters : c.name = name }

ServiceKinds ==
  {"service_create", "service_get", "service_list", "service_update",
   "service_delete"}
ClusterKinds == {"cluster_create", "cluster_get", "cluster_delete"}

\* A client sends a request to /platform/services.
service_request(r) ==
  /\ req[r].pc \in {"idle", "done"}
  /\ \E kind \in ServiceKinds, name \in ServiceNames :
       \E body \in IF kind \in {"service_create", "service_update"}
                     THEN ServiceDefinitions ELSE {NoBody} :
         req' = [req EXCEPT ![r] = NewReq(kind, name, body, Len(log), FALSE)]
  /\ UNCHANGED <<routes, log, snapshot, lock, clusters>>

\* A client sends a request to /clusters.
cluster_request(r) ==
  /\ req[r].pc \in {"idle", "done"}
  /\ \E kind \in ClusterKinds, name \in ServiceNames :
       \E body \in IF kind = "cluster_create"
                     THEN { c \in ClusterBodies : c.name = name }
                     ELSE {NoBody} :
         req' = [req EXCEPT ![r] = NewReq(kind, name, body, Len(log), FALSE)]
  /\ UNCHANGED <<routes, log, snapshot, lock, clusters>>

\* A write of the clusters table, in the commit order of all writes.
CommitCluster == log' = Append(log, [op |-> "cluster", name |-> NoName, by |-> 0])

CanWriteCluster == Len(log) < MaxCommits

\* create_cluster_handler: Conflict if the name is stored, else the cluster
\* is stored and the cluster cache refreshed; a failed refresh is an error
\* after the write.
create_cluster_handler(r, body) ==
  IF body.name \in ClusterNames
    THEN /\ Respond(r, StatusConflict)
         /\ UNCHANGED <<clusters, log>>
    ELSE /\ CanWriteCluster
         /\ clusters' = clusters \cup {body}
         /\ CommitCluster
         /\ \E ok \in BOOLEAN :
              req' = [req EXCEPT
                ![r].pc = "done",
                ![r].status = IF ok THEN StatusCreated ELSE StatusInternal,
                ![r].commitAt = Len(log) + 1]

get_cluster_handler(r, name) ==
  /\ req' = [req EXCEPT
       ![r].pc = "done",
       ![r].status = IF name \in ClusterNames THEN StatusOk
                     ELSE StatusNotFound,
       ![r].readAt = Len(log)]
  /\ UNCHANGED <<clusters, log>>

list_clusters_handler(r) ==
  /\ req' = [req EXCEPT ![r].pc = "done", ![r].status = StatusOk,
                          ![r].listed = ClusterNames,
                          ![r].readAt = Len(log)]
  /\ UNCHANGED <<clusters, log>>

update_cluster_handler(r, name, body) ==
  IF body.name # name
    THEN /\ Respond(r, StatusBadRequest)
         /\ UNCHANGED <<clusters, log>>
  ELSE IF name \notin ClusterNames
    THEN /\ Respond(r, StatusNotFound)
         /\ UNCHANGED <<clusters, log>>
  ELSE /\ CanWriteCluster
       /\ clusters' = (clusters \ ClustersOf(name)) \cup {body}
       /\ CommitCluster
       /\ \E ok \in BOOLEAN :
            req' = [req EXCEPT
              ![r].pc = "done",
              ![r].status = IF ok THEN StatusOk ELSE StatusInternal,
              ![r].commitAt = Len(log) + 1]

delete_cluster_handler(r, name) ==
  IF name \notin ClusterNames
    THEN /\ Respond(r, StatusNotFound)
         /\ UNCHANGED <<clusters, log>>
    ELSE /\ CanWriteCluster
         /\ clusters' = clusters \ ClustersOf(name)
         /\ CommitCluster
         /\ \E ok \in BOOLEAN :
              req' = [req EXCEPT
                ![r].pc = "done",
                ![r].status = IF ok THEN StatusNoContent ELSE StatusInternal,
                ![r].commitAt = Len(log) + 1]

\* The Native cluster endpoints.
native_cluster_handler(r) ==
  /\ req[r].pc = "start"
  /\ req[r].kind \in ClusterKinds
  /\ CASE req[r].kind = "cluster_create" ->
            create_cluster_handler(r, req[r].body)
       [] req[r].kind = "cluster_get" -> get_cluster_handler(r, req[r].name)
       [] req[r].kind = "cluster_delete" ->
            delete_cluster_handler(r, req[r].name)
  /\ UNCHANGED <<routes, snapshot, lock>>

create_service_handler(r) ==
  /\ req[r].pc = "start" /\ req[r].kind = "service_create"
  /\ IF ~ServiceDefinition_validate(req[r].body)
       THEN /\ Respond(r, StatusBadRequest)
            /\ UNCHANGED <<clusters, log>>
       ELSE create_cluster_handler(r, service_to_cluster(req[r].body))
  /\ UNCHANGED <<routes, snapshot, lock>>

list_services_handler(r) ==
  /\ req[r].pc = "start" /\ req[r].kind = "service_list"
  /\ list_clusters_handler(r)
  /\ UNCHANGED <<routes, snapshot, lock>>

get_service_handler(r) ==
  /\ req[r].pc = "start" /\ req[r].kind = "service_get"
  /\ get_cluster_handler(r, req[r].name)
  /\ UNCHANGED <<routes, snapshot, lock>>

\* An update that lowers the body without comparing its name with the path.
update_service_handler_unchecked(r) ==
  /\ req[r].pc = "start" /\ req[r].kind = "service_update"
  /\ IF ~ServiceDefinition_validate(req[r].body)
       THEN /\ Respond(r, StatusBadRequest)
            /\ UNCHANGED <<clusters, log>>
       ELSE update_cluster_handler(r, req[r].body.name,
                                   service_to_cluster(req[r].body))
  /\ UNCHANGED <<routes, snapshot, lock>>

update_service_handler(r) ==
  /\ req[r].pc = "start" /\ req[r].kind = "service_update"
  /\ IF ~ServiceDefinition_validate(req[r].body)
       THEN /\ Respond(r, StatusBadRequest)
            /\ UNCHANGED <<clusters, log>>
     ELSE IF req[r].body.name # req[r].name
       THEN /\ Respond(r, StatusBadRequest)
            /\ UNCHANGED <<clusters, log>>
     ELSE update_cluster_handler(r, req[r].name,
                                 service_to_cluster(req[r].body))
  /\ UNCHANGED <<routes, snapshot, lock>>

\* A delete that answers 204 without calling the cluster handler.
delete_service_handler_detached(r) ==
  /\ req[r].pc = "start" /\ req[r].kind = "service_delete"
  /\ Respond(r, StatusNoContent)
  /\ UNCHANGED <<routes, log, snapshot, lock, clusters>>

delete_service_handler(r) ==
  /\ req[r].pc = "start" /\ req[r].kind = "service_delete"
  /\ delete_cluster_handler(r, req[r].name)
  /\ UNCHANGED <<routes, snapshot, lock>>

\* ---- ServiceDefinition <-> Cluster conversions ---------------------------
\* enum LoadBalancingStrategy.
LoadBalancingStrategy ==
  {"RoundRobin", "LeastRequest", "Random", "RingHash", "Maglev"}

\* Option<String> lb_policy of a cluster: the five policies, another string,
\* or None.
NoLbPolicy == [some |-> FALSE, value |-> ""]
LbPolicies ==
  {NoLbPolicy}
    \cup { [some |-> TRUE, value |-> v] :
             v \in {"ROUND_ROBIN", "LEAST_REQUEST", "RANDOM", "RING_HASH",
                    "MAGLEV", "CLUSTER_PROVIDED"} }

\* platform_service_handlers::string_to_load_balancing
string_to_load_balancing(s) ==
  CASE s = "LEAST_REQUEST" -> "LeastRequest"
    [] s = "RANDOM" -> "Random"
    [] s = "RING_HASH" -> "RingHash"
    [] s = "MAGLEV" -> "Maglev"
    [] OTHER -> "RoundRobin"

\* platform_service_handlers::cluster_response_to_service, load_balancing.
cluster_response_to_service_load_balancing(lb_policy) ==
  IF lb_policy.some THEN string_to_load_balancing(lb_policy.value)
  ELSE "RoundRobin"

\* platform_transformers::cluster_to_service, load_balancing.
cluster_to_service_load_balancing(lb_policy) ==
  CASE lb_policy.some /\ lb_policy.value = "ROUND_ROBIN" -> "RoundRobin"
    [] lb_policy.some /\ lb_policy.value = "RANDOM" -> "Random"
    [] lb_policy.some /\ lb_policy.value = "LEAST_REQUEST" -> "LeastRequest"
    [] OTHER -> "RoundRobin"

\* platform_transformers::service_to_cluster_response, lb_policy.
service_to_cluster_response_lb_policy(strategy) ==
  [some |-> TRUE,
   value |-> CASE strategy = "RoundRobin" -> "ROUND_ROBIN"
               [] strategy = "Random" -> "RANDOM"
               [] strategy = "LeastRequest" -> "LEAST_REQUEST"
               [] strategy = "RingHash" -> "RING_HASH"
               [] strategy = "Maglev" -> "MAGLEV"]

\* Option<u64>: a duration, or None.
NoDuration == [some |-> FALSE, value |-> 0]
Durations(max) ==
  {NoDuration} \cup { [some |-> TRUE, value |-> v] : v \in 0..max }

\* |ms| ms / 1000 rounding to the nearest second.
ms_to_seconds_nearest(ms) == (ms + 500) \div 1000

\* |ms| ms / 1000 on u64.
ms_to_seconds(ms) == ms \div 1000

\* |s| s * 1000
seconds_to_ms(s) == s * 1000

\* Option<ServiceOutlierDetection>: None, or Some with its two durations.
NoOutlierDetection ==
  [some |-> FALSE, interval |-> NoDuration, base_ejection_time |-> NoDuration]
ServiceOutlierDetections ==
  {NoOutlierDetection}
    \cup [some : {TRUE}, interval : Durations(MaxMs),
          base_ejection_time : {NoDuration, [some |-> TRUE, value |-> 30500]}]

\* service_to_cluster and service_to_cluster_response, outlier_detection:
\* `od.interval_ms.map(|ms| ms / 1000)` inside `outlier_detection.map`.
outlier_detection_to_seconds(od) ==
  IF ~od.some THEN NoOutlierDetection
  ELSE [some |-> TRUE,
        interval |->
          IF od.interval.some
            THEN [some |-> TRUE, value |-> ms_to_seconds(od.interval.value)]
            ELSE NoDuration,
        base_ejection_time |->
          IF od.base_ejection_time.some
            THEN [some |-> TRUE,
                  value |-> ms_to_seconds(od.base_ejection_time.value)]
            ELSE NoDuration]

\* cluster_response_to_service and cluster_to_service, outlier_detection:
\* `od.interval_seconds.map(|s| s * 1000)`.
outlier_detection_to_ms(od) ==
  IF ~od.some THEN NoOutlierDetection
  ELSE [some |-> TRUE,
        interval |->
          IF od.interval.some
            THEN [some |-> TRUE, value |-> seconds_to_ms(od.interval.value)]
            ELSE NoDuration,
        base_ejection_time |->
          IF od.base_ejection_time.some
            THEN [some |-> TRUE,
                  value |-> seconds_to_ms(od.base_ejection_time.value)]
            ELSE NoDuration]

\* The two pairs of conversions: the service handlers' and the platform
\* transformers'.
Conversions == {"handlers", "transformers"}

\* The ServiceDefinitions lowered: every strategy, and every outlier
\* detection.
LoweredServices ==
  { [load_balancing |-> strategy, outlier_detection |-> NoOutlierDetection] :
      strategy \in LoadBalancingStrategy }
    \cup { [load_balancing |-> "RoundRobin", outlier_detection |-> od] :
             od \in ServiceOutlierDetections }

\* The clusters written through the Native surface and projected: any
\* lb_policy.
NativeClusters ==
  { [lb_policy |-> lb, outlier_detection |-> NoOutlierDetection] :
      lb \in LbPolicies }

\* service_to_cluster (handlers) or service_to_cluster_response
\* (transformers) of the service the request carries.
lower_service(r) ==
  /\ req[r].kind = "lower" /\ req[r].pc \in {"start", "projected"}
  /\ LET service == IF req[r].pc = "start" THEN req[r].lowering.service
                    ELSE req[r].lowering.projected
     IN  req' = [req EXCEPT
           ![r].pc = "lowered",
           ![r].lowering.round = @ + 1,
           ![r].lowering.cluster =
             [lb_policy |->
                IF req[r].lowering.via = "handlers"
                  THEN [some |-> TRUE,
                        value |-> load_balancing_to_string(
                                    service.load_balancing)]
                  ELSE service_to_cluster_response_lb_policy(
                         service.load_balancing),
              outlier_detection |->
                outlier_detection_to_seconds(service.outlier_detection)]]
  /\ UNCHANGED <<routes, log, snapshot, lock, clusters>>

\* cluster_response_to_service (handlers) or cluster_to_service
\* (transformers) of the cluster lowered or given.
project_cluster(r) ==
  /\ req[r].kind \in {"lower", "project"} /\ req[r].pc = "lowered"
  /\ LET cluster == req[r].lowering.cluster
         service ==
           [load_balancing |->
              IF req[r].lowering.via = "handlers"
                THEN cluster_response_to_service_load_balancing(
                       cluster.lb_policy)
                ELSE cluster_to_service_load_balancing(cluster.lb_policy),
            outlier_detection |->
              outlier_detection_to_ms(cluster.outlier_detection)]
     IN  req' = [req EXCEPT
           ![r].pc = IF req[r].kind = "lower" /\ req[r].lowering.round = 1
                       THEN "projected" ELSE "done",
           ![r].status = StatusOk,
           ![r].lowering.projected = service,
           ![r].lowering.first =
             IF req[r].lowering.round <= 1 THEN service ELSE @]
  /\ UNCHANGED <<routes, log, snapshot, lock, clusters>>

\* ---- authentication and authorization middleware ------------------------
Scopes ==
  {"apis:read", "apis:write", "route-configs:write", "listeners:write",
   "clusters:write"}

\* The scopes of the route_layer in front of each handler.
RequiredScopes(kind) ==
  CASE kind = "platform_create" ->
         {"apis:write", "route-configs:write", "listeners:write",
          "clusters:write"}
    [] kind \in {"create", "update", "delete"} -> {"route-configs:write"}

\* The method the route of each handler is registered for.
RouteMethod(kind) ==
  CASE kind \in {"platform_create", "create"} -> "POST"
    [] kind = "update" -> "PUT"
    [] kind = "delete" -> "DELETE"

\* Authorization headers: none, or the bearer token of an active personal
\* access token with some set of scopes.
Headers ==
  { [bearer |-> FALSE, scopes |-> {}] }
    \cup { [bearer |-> TRUE, scopes |-> granted] : granted \in SUBSET Scopes }

\* AuthService::authenticate: the token's AuthContext, or MissingBearer.
auth_service_authenticate(header) ==
  [present |-> header.bearer, scopes |-> header.scopes]

\* authenticate with the OPTIONS test left out.
authenticate_every_method(r) ==
  /\ req[r].pc = "received"
  /\ LET context == auth_service_authenticate(req[r].header)
     IN  IF context.present
           THEN req' = [req EXCEPT ![r].pc = "authenticated",
                                   ![r].consulted = TRUE,
                                   ![r].context = context,
                                   ![r].layer = 1]
           ELSE req' = [req EXCEPT ![r].pc = "done",
                                   ![r].consulted = TRUE,
                                   ![r].status = StatusUnauthorized]
  /\ UNCHANGED <<routes, log, snapshot, lock, clusters>>

authenticate(r) ==
  /\ req[r].pc = "received"
  /\ IF req[r].method = "OPTIONS"
       THEN req' = [req EXCEPT ![r].pc = "authenticated", ![r].layer = 1]
       ELSE LET context == auth_service_authenticate(req[r].header)
            IN  IF context.present
                  THEN req' = [req EXCEPT ![r].pc = "authenticated",
                                          ![r].consulted = TRUE,
                                          ![r].context = context,
                                          ![r].layer = 1]
                  ELSE req' = [req EXCEPT ![r].pc = "done",
                                          ![r].consulted = TRUE,
                                          ![r].status = StatusUnauthorized]
  /\ UNCHANGED <<routes, log, snapshot, lock, clusters>>

\* ensure_scopes with any() in place of all().
ensure_scopes_any(r) ==
  /\ req[r].pc = "authenticated"
  /\ IF ~req[r].context.present
       THEN Respond(r, StatusInternal)
     ELSE IF \E scope \in RequiredScopes(req[r].kind) :
               scope \in req[r].context.scopes
       THEN req' = [req EXCEPT ![r].pc = "start", ![r].layer = 2]
     ELSE Respond(r, StatusForbidden)
  /\ UNCHANGED <<routes, log, snapshot, lock, clusters>>

\* The Extension<AuthContext> extractor rejects a request that carries no
\* AuthContext; otherwise every required scope must be granted.
ensure_scopes(r) ==
  /\ req[r].pc = "authenticated"
  /\ IF ~req[r].context.present
       THEN Respond(r, StatusInternal)
     ELSE IF \A scope \in RequiredScopes(req[r].kind) :
               scope \in req[r].context.scopes
       THEN req' = [req EXCEPT ![r].pc = "start", ![r].layer = 2]
     ELSE Respond(r, StatusForbidden)
  /\ UNCHANGED <<routes, log, snapshot, lock, clusters>>

\* ---- OpenAPI import ------------------------------------------------------
\* The methods openapi_to_api_definition looks up in a path item, in order.
HttpMethods == <<"get", "post", "put", "delete", "patch", "options", "head">>

to_uppercase(method) ==
  CASE method = "get" -> "GET"
    [] method = "post" -> "POST"
    [] method = "put" -> "PUT"
    [] method = "delete" -> "DELETE"
    [] method = "patch" -> "PATCH"
    [] method = "options" -> "OPTIONS"
    [] method = "head" -> "HEAD"

\* The paths of an imported document, in the iteration order of its map.
OpenApiPaths == <<"/users", "/users/{id}">>

\* An x-flowplane-ratelimit value: whether `requests` is an integer and
\* whether `interval` is a string.
RateLimitTags ==
  [present : {TRUE}, requests : BOOLEAN, interval : BOOLEAN]
NoRateLimitTag == [present |-> FALSE, requests |-> FALSE, interval |-> FALSE]
ValidRateLimitTag == [present |-> TRUE, requests |-> TRUE, interval |-> TRUE]

\* The known tags of an operation: a rate limit of any shape alone, jwt-auth
\* alone, cors alone, or all three well-formed (S5).
KnownTags ==
  { [ratelimit |-> t, jwt_auth |-> FALSE, cors |-> FALSE] :
      t \in RateLimitTags \cup {NoRateLimitTag} }
    \cup { [ratelimit |-> NoRateLimitTag, jwt_auth |-> TRUE, cors |-> FALSE],
           [ratelimit |-> NoRateLimitTag, jwt_auth |-> FALSE, cors |-> TRUE],
           [ratelimit |-> ValidRateLimitTag, jwt_auth |-> TRUE, cors |-> TRUE] }

Operation(known, unknown) ==
  [present |-> TRUE, ratelimit |-> known.ratelimit,
   jwt_auth |-> known.jwt_auth, cors |-> known.cors, unknown |-> unknown]

\* path_item.get(method) = None.
NoOperation ==
  [present |-> FALSE, ratelimit |-> NoRateLimitTag, jwt_auth |-> FALSE,
   cors |-> FALSE, unknown |-> <<>>]

\* Operations: any known tags without unknown keys; one unknown key beside no
\* known tag, a well-formed rate limit or one without interval; two unknown
\* keys, in key order.
Operations ==
  { Operation(k, <<>>) : k \in KnownTags }
    \cup { Operation([ratelimit |-> t, jwt_auth |-> FALSE, cors |-> FALSE],
                     <<"x-flowplane-invalid-filter">>) :
             t \in { NoRateLimitTag, ValidRateLimitTag,
                     [present |-> TRUE, requests |-> TRUE,
                      interval |-> FALSE] } }
    \cup { Operation([ratelimit |-> NoRateLimitTag, jwt_auth |-> FALSE,
                      cors |-> FALSE],
                     <<"x-flowplane-custom", "x-flowplane-invalid-filter">>) }

PopulatedMethods == {"get", "post"}

\* Documents: the `openapi` version and, per path, the operations of its
\* path item.
OpenApiDocuments ==
  [openapi : {<<3, 0>>, <<2, 0>>},
   paths : [DOMAIN OpenApiPaths ->
              [PopulatedMethods -> Operations \cup {NoOperation}]]]

path_item_get(path_item, method) ==
  IF method \in DOMAIN path_item THEN path_item[method] ELSE NoOperation

\* Option<ApiPolicies> of the importer: which of the three policies are Some.
NoPolicies ==
  [some |-> FALSE, rate_limit |-> FALSE, authentication |-> FALSE,
   cors |-> FALSE]

InvalidRateLimitWarning == <<"Invalid x-flowplane-ratelimit format">>
UnknownTagWarning(key) == <<"Unknown flowplane tag: ", key>>

\* extract_flowplane_policies: (policies, warnings) of one operation.
extract_flowplane_policies(operation) ==
  LET rate_limit == /\ operation.ratelimit.present
                    /\ operation.ratelimit.requests
                    /\ operation.ratelimit.interval
      invalid == IF operation.ratelimit.present
                    /\ ~operation.ratelimit.requests
                   THEN << InvalidRateLimitWarning >> ELSE <<>>
      unknown == [i \in DOMAIN operation.unknown |->
                    UnknownTagWarning(operation.unknown[i])]
      has_policies == rate_limit \/ operation.jwt_auth \/ operation.cors
  IN  [policies |-> IF has_policies
                      THEN [some |-> TRUE, rate_limit |-> rate_limit,
                            authentication |-> operation.jwt_auth,
                            cors |-> operation.cors]
                      ELSE NoPolicies,
       warnings |-> invalid \o unknown]

\* The global policies take the first route's policies whatever the routes
\* pushed so far.
merge_global_policies_any_route(pushed, global_policies, policies) ==
  IF policies.some THEN policies ELSE global_policies

\* "Merge policies into global if this is the first route".
merge_global_policies(pushed, global_policies, policies) ==
  IF pushed = <<>> /\ policies.some THEN policies ELSE global_policies

\* The warnings of an operation replace those collected so far.
append_warnings_overwrite(warnings, op_warnings) == op_warnings

\* warnings.append(&mut op_warnings)
append_warnings(warnings, op_warnings) == warnings \o op_warnings

\* The body of the loop over paths and methods, for one (path, method).
import_operation(acc, path, method, operation) ==
  IF ~operation.present THEN acc
  ELSE LET extracted == extract_flowplane_policies(operation)
       IN  [warnings |-> append_warnings(acc.warnings, extracted.warnings),
            global_policies |->
              merge_global_policies(acc.routes, acc.global_policies,
                                    extracted.policies),
            routes |-> Append(acc.routes,
                              [path |-> path, method |-> to_uppercase(method),
                               policies |-> extracted.policies])]

RECURSIVE import_methods(_, _, _, _)
import_methods(acc, path, path_item, m) ==
  IF m > Len(HttpMethods) THEN acc
  ELSE import_methods(
         import_operation(acc, path, HttpMethods[m],
                          path_item_get(path_item, HttpMethods[m])),
         path, path_item, m + 1)

RECURSIVE import_paths(_, _, _)
import_paths(acc, paths, p) ==
  IF p > Len(OpenApiPaths) THEN acc
  ELSE import_paths(import_methods(acc, OpenApiPaths[p], paths[p], 1),
                    paths, p + 1)

\* openapi_to_api_definition: the routes, the global policies and the
\* warnings of a document.
openapi_to_api_definition(spec) ==
  import_paths([warnings |-> <<>>, global_policies |-> NoPolicies,
                routes |-> <<>>],
               spec.paths, 1)

\* POST /platform/import/openapi.
import_openapi_handler(r) ==
  /\ req[r].pc = "start" /\ req[r].kind = "import"
  /\ IF req[r].body.openapi[1] # 3
       THEN Respond(r, StatusBadRequest)
       ELSE LET api_def == openapi_to_api_definition(req[r].body)
            IN  req' = [req EXCEPT
                  ![r].pc = "done", ![r].status = StatusCreated,
                  ![r].apiId = new_id,
                  ![r].imported = [routes |-> api_def.routes,
                                   policies |-> api_def.global_policies,
                                   warnings |-> api_def.warnings]]
  /\ UNCHANGED <<routes, log, snapshot, lock, clusters>>

\* ---- specifications -----------------------------------------------------
Init ==
  /\ req = [r \in Reqs |-> IdleReq]
  /\ routes = {}
  /\ log = <<>>
  /\ snapshot = EmptySnapshot
  /\ lock = 0
  /\ clusters = {}

Handle(r) ==
  \/ create_route_validate(r)
  \/ create_route_commit(r)
  \/ update_route_validate(r)
  \/ update_route_fetch(r)
  \/ update_route_commit(r)
  \/ delete_route_check(r)
  \/ delete_route_fetch(r)
  \/ delete_route_commit(r)
  \/ refresh_read(r)
  \/ refresh_fail(r)
  \/ refresh_install(r)

\* Concurrent clients writing one name, one request per slot at a time.
ConcurrentNames == {PrimaryRoutes}

Next ==
  \/ \E r \in Reqs : post_route_config(r, ConcurrentNames, ConcurrentRules)
  \/ \E r \in Reqs : put_route_config(r, ConcurrentNames, ConcurrentRules)
  \/ \E r \in Reqs : delete_route_config(r, ConcurrentNames)
  \/ \E r \in Reqs : Handle(r)

Spec == Init /\ [][Next]_vars

\* One request of any kind, with any payload, handled from a repository that
\* is empty or holds one route configuration whose refresh has completed.
Requests ==
  { NewReq("create", name, [name |-> name, rule |-> rule], 0, FALSE) :
      name \in Names, rule \in RouteRules }
  \cup { NewReq("update", name, [name |-> bodyName, rule |-> rule], 0, FALSE) :
      name \in Names, bodyName \in Names, rule \in RouteRules }
  \cup { NewReq("delete", name, NoBody, 0, FALSE) : name \in Names }
  \cup { NewReq("platform_create", NoName, api, 0, FALSE) :
      api \in ApiDefinitions }

InitOnce ==
  /\ \E stored \in SUBSET Names :
       /\ Cardinality(stored) <= 1
       /\ routes = UNION { repo_create({}, 1, n, summarize_route(SampleRule),
                                        to_xds_config(SampleRule)) : n \in stored }
       /\ log = IF stored = {} THEN <<>>
                ELSE << [op |-> "create", name |-> CHOOSE n \in stored : TRUE,
                         by |-> 1] >>
  /\ snapshot = [at |-> Len(log), view |-> View(routes)]
  /\ lock = 0
  /\ clusters = {}
  /\ \E first \in Requests :
       req = [r \in Reqs |->
                IF r = 1 THEN [first EXCEPT !.startAt = Len(log)] ELSE IdleReq]

NextOnce ==
  \/ Handle(1)
  \/ create_api_definition_handler(1)
  \/ platform_follow_up(2)
  \/ list_api_definitions_handler(2)
  \/ get_api_definition_by_id_handler(2)
  \/ update_api_definition_handler(2)
  \/ delete_api_definition_handler(2)

SpecOnce == InitOnce /\ [][NextOnce]_vars

\* A writer on slot 1 and a reader on slot 2, on a repository that is empty
\* or holds two versions of each name; the log starts empty and records the
\* writes of the run.
InitStored ==
  /\ \E stored \in {{}, Names} :
       routes = UNION {
         repo_update(
           repo_create({}, IF n = PrimaryRoutes THEN 1 ELSE 2, n,
                       summarize_route(SampleRule), to_xds_config(SampleRule)),
           IF n = PrimaryRoutes THEN 1 ELSE 2,
           summarize_route(TemplateRule), to_xds_config(TemplateRule)) :
         n \in stored }
  /\ log = <<>>
  /\ snapshot = [at |-> 0, view |-> View(routes)]
  /\ lock = 0
  /\ clusters = {}
  /\ req = [r \in Reqs |-> IdleReq]

NextStored ==
  \/ post_route_config(1, {PrimaryRoutes}, SentRules)
  \/ put_route_config(1, {PrimaryRoutes}, SentRules)
  \/ delete_route_config(1, {PrimaryRoutes})
  \/ create_route_validate(1)
  \/ create_route_commit(1)
  \/ update_route_validate(1)
  \/ update_route_fetch(1)
  \/ update_route_commit(1)
  \/ delete_route_check(1)
  \/ delete_route_fetch(1)
  \/ delete_route_commit(1)
  \/ refresh_read(1)
  \/ refresh_fail(1)
  \/ refresh_install(1)
  \/ get_route_handler(2)
  \/ list_routes_handler(2)

SpecStored == InitStored /\ [][NextStored]_vars

\* A Platform client on slot 1 and a Native client on slot 2.
NextServices ==
  \/ service_request(1)
  \/ create_service_handler(1)
  \/ list_services_handler(1)
  \/ get_service_handler(1)
  \/ update_service_handler(1)
  \/ delete_service_handler(1)
  \/ cluster_request(2)
  \/ native_cluster_handler(2)

SpecServices == Init /\ [][NextServices]_vars

\* One write request entering through the middleware, with any method and
\* any Authorization header, on a repository that is empty or holds the
\* route configuration it names.
SecuredRequests ==
  { [q EXCEPT !.pc = "received", !.header = header,
               !.method = IF options THEN "OPTIONS" ELSE RouteMethod(q.kind)] :
      q \in { NewReq("create", PrimaryRoutes,
                     [name |-> PrimaryRoutes, rule |-> SampleRule], 0, FALSE),
              NewReq("delete", PrimaryRoutes, NoBody, 0, FALSE) }
            \cup { NewReq("platform_create", NoName, api, 0, FALSE) :
                     api \in { a \in ApiDefinitions : Len(a.routes) = 1 } },
      options \in BOOLEAN, header \in Headers }

InitSecured ==
  /\ \E stored \in {{}, {PrimaryRoutes}} :
       /\ routes = UNION { repo_create({}, 1, n, summarize_route(SampleRule),
                                        to_xds_config(SampleRule)) : n \in stored }
       /\ log = IF stored = {} THEN <<>>
                ELSE << [op |-> "create", name |-> PrimaryRoutes, by |-> 1] >>
  /\ snapshot = [at |-> Len(log), view |-> View(routes)]
  /\ lock = 0
  /\ clusters = {}
  /\ \E first \in SecuredRequests :
       req = [r \in Reqs |->
                IF r = 1
                  THEN [first EXCEPT !.startAt = Len(log)]
                  ELSE IdleReq]

NextSecured ==
  \/ authenticate(1)
  \/ ensure_scopes(1)
  \/ create_route_validate(1)
  \/ create_route_commit(1)
  \/ delete_route_check(1)
  \/ delete_route_fetch(1)
  \/ delete_route_commit(1)
  \/ refresh_read(1)
  \/ refresh_fail(1)
  \/ refresh_install(1)
  \/ create_api_definition_handler(1)

SpecSecured == InitSecured /\ [][NextSecured]_vars

\* One PUT /route-configs/{name} on slot 1 and one PUT
\* /platform/services/{name} on slot 2, each with any name in its body, on
\* stores that hold every name.
InitUpdates ==
  /\ routes = repo_create(
                repo_create({}, 1, PrimaryRoutes, summarize_route(SampleRule),
                            to_xds_config(SampleRule)),
                2, DefaultGatewayRoutes, summarize_route(SampleRule),
                to_xds_config(SampleRule))
  /\ log = << [op |-> "create", name |-> PrimaryRoutes, by |-> 1],
              [op |-> "create", name |-> DefaultGatewayRoutes, by |-> 1] >>
  /\ snapshot = [at |-> Len(log), view |-> View(routes)]
  /\ lock = 0
  /\ clusters = ClusterBodies
  /\ \E name \in Names, bodyName \in Names, rule \in ConcurrentRules,
        path \in ServiceNames, service \in ServiceDefinitions :
       req = [r \in Reqs |->
                IF r = 1
                  THEN NewReq("update", name,
                              [name |-> bodyName, rule |-> rule], Len(log), FALSE)
                ELSE IF r = 2
                  THEN NewReq("service_update", path, service, Len(log), FALSE)
                ELSE IdleReq]

NextUpdates ==
  \/ update_route_validate(1)
  \/ update_route_fetch(1)
  \/ update_route_commit(1)
  \/ refresh_read(1)
  \/ refresh_fail(1)
  \/ refresh_install(1)
  \/ update_service_handler(2)

SpecUpdates == InitUpdates /\ [][NextUpdates]_vars

\* One import of any document.
InitImport ==
  /\ routes = {}
  /\ log = <<>>
  /\ snapshot = [at |-> 0, view |-> View(routes)]
  /\ lock = 0
  /\ clusters = {}
  /\ \E spec \in OpenApiDocuments :
       req = [r \in Reqs |->
                IF r = 1 THEN NewReq("import", NoName, spec, 0, FALSE)
                ELSE IdleReq]

NextImport == import_openapi_handler(1)

SpecImport == InitImport /\ [][NextImport]_vars

\* One Platform request: the create or the update of any ApiDefinition, or
\* the create of any ServiceDefinition.
InitPlatform ==
  /\ routes = {}
  /\ log = <<>>
  /\ snapshot = [at |-> 0, view |-> View(routes)]
  /\ lock = 0
  /\ clusters = {}
  /\ \E first \in
         { NewReq(kind, NoName, api, 0, FALSE) :
             kind \in {"platform_create", "platform_update"},
             api \in PlatformApis }
           \cup { NewReq("service_create", service.name, service, 0, FALSE) :
                    service \in ServiceDefinitions } :
       req = [r \in Reqs |-> IF r = 1 THEN first ELSE IdleReq]

NextPlatform ==
  \/ create_api_definition_handler(1)
  \/ update_api_definition_handler(1)
  \/ create_service_handler(1)

SpecPlatform == InitPlatform /\ [][NextPlatform]_vars

\* One client whose connection may drop while a write is in progress.
NextCancel ==
  \/ post_route_config(1, {PrimaryRoutes}, {SampleRule})
  \/ put_route_config(1, {PrimaryRoutes}, {SampleRule, TemplateRule})
  \/ delete_route_config(1, {PrimaryRoutes})
  \/ create_route_validate(1)
  \/ create_route_commit(1)
  \/ update_route_validate(1)
  \/ update_route_fetch(1)
  \/ update_route_commit(1)
  \/ delete_route_check(1)
  \/ delete_route_fetch(1)
  \/ delete_route_commit(1)
  \/ refresh_read(1)
  \/ refresh_fail(1)
  \/ refresh_install(1)
  \/ cancel(1)

SpecCancel == InitStored /\ [][NextCancel]_vars

\* One conversion: a ServiceDefinition lowered and projected twice, or a
\* Native cluster projected, through either pair of conversions.
InitLowering ==
  /\ routes = {}
  /\ log = <<>>
  /\ snapshot = [at |-> 0, view |-> View(routes)]
  /\ lock = 0
  /\ clusters = {}
  /\ \E via \in Conversions :
       \E first \in
           { [IdleReq EXCEPT
                !.pc = "start", !.kind = "lower",
                !.lowering = [via |-> via, round |-> 0, service |-> service,
                              cluster |-> [lb_policy |-> NoLbPolicy,
                                           outlier_detection |->
                                             NoOutlierDetection],
                              projected |-> service, first |-> service]] :
               service \in LoweredServices }
             \cup
           { [IdleReq EXCEPT
                !.pc = "lowered", !.kind = "project",
                !.lowering = [via |-> via, round |-> 0,
                              service |-> [load_balancing |-> "RoundRobin",
                                           outlier_detection |->
                                             NoOutlierDetection],
                              cluster |-> cluster,
                              projected |-> [load_balancing |-> "RoundRobin",
                                             outlier_detection |->
                                               NoOutlierDetection],
                              first |-> [load_balancing |-> "RoundRobin",
                                         outlier_detection |->
                                           NoOutlierDetection]]] :
               cluster \in NativeClusters } :
         req = [r \in Reqs |-> IF r = 1 THEN first ELSE IdleReq]

NextLowering == lower_service(1) \/ project_cluster(1)

SpecLowering == InitLowering /\ [][NextLowering]_vars

\* ---- properties ---------------------------------------------------------
Is2xx(status) == status \in 200..299
Done(r) == req[r].pc = "done"
Committed(r) == req[r].commitAt > 0
Refreshed(r) == req[r].refreshAt > 0

\* The latest version of a name after the first k committed writes, as the
\* history of writes determines it: 0 when the name is absent.
RECURSIVE LiveVersion(_, _)
LiveVersion(name, k) ==
  IF k = 0 THEN 0
  ELSE LET e == log[k]
           before == LiveVersion(name, k - 1)
       IN  IF e.name # name THEN before
           ELSE IF e.op = "create" THEN 1
           ELSE IF e.op = "update" THEN before + 1
           ELSE 0

\* C1: every 2xx response to a write request, Native or Platform, is
\* preceded by a successful refresh of the snapshot that read the
\* repository after that write was committed.
C1_RefreshBefore2xx ==
  \A r \in Reqs :
    (Done(r) /\ Is2xx(req[r].status))
      => (Committed(r) /\ req[r].refreshAt >= req[r].commitAt)

NoDeleteAfter(name, s) ==
  \A k \in (s + 1)..Len(log) : ~(log[k].name = name /\ log[k].op = "delete")

\* Two creates of one name that both arrived while the name was absent.
RacingCreates(r, q) ==
  /\ r # q /\ Done(r) /\ Done(q)
  /\ req[r].kind = "create" /\ req[q].kind = "create"
  /\ req[r].body.name = req[q].body.name
  /\ req[r].startAt = req[q].startAt
  /\ LiveVersion(req[r].body.name, req[r].startAt) = 0
  /\ NoDeleteAfter(req[r].body.name, req[r].startAt)

SingleRecord(name, id) ==
  /\ \A row \in RowsOf(routes, name) : row.id = id
  /\ \E row \in RowsOf(routes, name) : row.version = 1

\* C3 (as stated): of two concurrent creates of one name, exactly one
\* returns 201 and the other 409, and the repository holds a single record
\* of the name, at version 1.
C3_ExactlyOne201 ==
  \A r, q \in Reqs :
    (RacingCreates(r, q) /\ Committed(r))
      => /\ req[r].status = StatusCreated
         /\ req[q].status = StatusConflict
         /\ SingleRecord(req[r].body.name, req[r].stored.id)

\* C3 (amended): of two concurrent creates of one absent name at most one
\* inserts; the inserting request returns 201 when its refresh succeeded and
\* 5xx when it failed, a request that did not insert returns 409, and the
\* repository holds a single record of the name, created at version 1.
C3_OneCreateWins ==
  \A r, q \in Reqs :
    RacingCreates(r, q)
      => /\ ~(Committed(r) /\ Committed(q))
         /\ ~Committed(r) => req[r].status = StatusConflict
         /\ Committed(r)
              => /\ req[q].status = StatusConflict
                 /\ req[r].status
                      = (IF Refreshed(r) THEN StatusCreated ELSE StatusInternal)
                 /\ SingleRecord(req[r].body.name, req[r].stored.id)

C3_Witness ==
  \E r, q \in Reqs :
    /\ RacingCreates(r, q) /\ Committed(r)
    /\ req[r].status = StatusCreated /\ req[q].status = StatusConflict

LastOnName(r) ==
  \A k \in (req[r].commitAt + 1)..Len(log) :
    log[k].name # log[req[r].commitAt].name

\* C6: when the refresh fails after the repository write succeeded, the
\* caller gets a 5xx and the write stays: the row written (or the deletion)
\* is what get_by_name returns until another write of the name.
C6_RefreshFailureKeepsWrite ==
  \A r \in Reqs :
    (Done(r) /\ Committed(r) /\ ~Refreshed(r))
      => /\ req[r].status >= 500
         /\ LastOnName(r)
              => IF req[r].kind = "delete"
                   THEN get_by_name(routes, req[r].name) = NoRow
                   ELSE LET row == get_by_name(routes, req[r].body.name)
                        IN  /\ row.id = req[r].stored.id
                            /\ row.version = req[r].stored.version
                            /\ row.configuration = to_xds_config(req[r].body.rule)

C6_Witness ==
  \E r \in Reqs :
    /\ Done(r) /\ Committed(r) /\ ~Refreshed(r)
    /\ req[r].kind = "update" /\ req[r].status = StatusInternal
    /\ get_by_name(routes, req[r].body.name).version = req[r].stored.version
    /\ snapshot.view # View(routes)

\* C7: after a write whose refresh failed, the same request sent again,
\* answered without a refresh failure, leaves the snapshot equal to the
\* repository (no other write having been committed meanwhile).
C7_RetryRecovers ==
  \A r \in Reqs :
    (/\ Done(r) /\ req[r].retry /\ req[r].status < 500
     /\ Len(log) > 0 /\ log[Len(log)].by = r
     /\ \A q \in Reqs : req[q].pc \notin {"committed", "refreshing"})
      => snapshot.view = View(routes)

\* C8: a delete of the default gateway route configuration answers 409 at
\* once and leaves the repository and the snapshot as they were.
C8_DefaultGatewayProtected ==
  [][\A r \in Reqs :
       (/\ req[r].kind = "delete" /\ req[r].name = DefaultGatewayRoutes
        /\ req[r].pc \notin {"idle", "done"}
        /\ req'[r] # req[r])
         => /\ req'[r].pc = "done"
            /\ req'[r].status = StatusConflict
            /\ routes' = routes /\ log' = log /\ snapshot' = snapshot]_vars

C8_Witness ==
  \E r \in Reqs :
    /\ Done(r) /\ req[r].kind = "delete"
    /\ req[r].name = DefaultGatewayRoutes
    /\ req[r].status = StatusConflict
    /\ get_by_name(routes, DefaultGatewayRoutes) # NoRow

\* C9: a rule with a Template path and a Forward carrying prefixRewrite is
\* rejected with 400, as is a Template path with a Weighted or Redirect
\* action and a templateRewrite on an Exact, Prefix or Regex path; a Template
\* path with a Forward carrying only templateRewrite passes validation; on
\* create and on update alike.
C9_TemplateRewriteRules ==
  \A r \in Reqs :
    (Done(r) /\ req[r].kind \in {"create", "update"})
      => LET rule == req[r].body.rule
         IN  /\ (rule.path = "template" /\ rule.action = "forward"
                 /\ rule.prefix_rewrite)
                  => req[r].status = StatusBadRequest
             /\ (rule.path = "template"
                 /\ rule.action \in {"weighted", "redirect"})
                  => req[r].status = StatusBadRequest
             /\ (rule.template_rewrite
                 /\ rule.path \in {"exact", "prefix", "regex"})
                  => req[r].status = StatusBadRequest
             /\ (/\ rule.path = "template" /\ rule.action = "forward"
                 /\ ~rule.prefix_rewrite /\ rule.template_rewrite
                 /\ req[r].body.name = req[r].name)
                  => req[r].status # StatusBadRequest

C9_Witness ==
  \E r \in Reqs :
    /\ Done(r) /\ req[r].kind = "update"
    /\ req[r].body.rule = BadTemplateRule
    /\ req[r].body.name = req[r].name
    /\ get_by_name(routes, req[r].name) # NoRow
    /\ req[r].status = StatusBadRequest

\* C10: after POST /platform/apis answered 201 with an id, the Native
\* surface serves the Cluster "{id}-cluster" and the RouteConfiguration
\* "{id}-routes", whose stored pathPrefix is basePath followed by the path
\* of the first route.
C10_PlatformRoundTrip ==
  \A r \in Reqs :
    (Done(r) /\ req[r].kind = "platform_create"
     /\ req[r].status = StatusCreated)
      => LET row == get_by_name(routes, format_name(req[r].apiId, "-routes"))
         IN  /\ format_name(req[r].apiId, "-cluster") \in ClusterNames
             /\ row # NoRow
             /\ row.path_prefix
                  = req[r].body.base_path \o req[r].body.routes[1].path

\* The platform create whose returned id request r uses.
CreatedApi(r, q) ==
  /\ q # r /\ Done(q) /\ req[q].kind = "platform_create"
  /\ req[q].status = StatusCreated /\ req[q].apiId = req[r].apiId

\* C11: state created through the Platform surface is not dropped: after
\* POST /platform/apis answered 201 with id i, GET /platform/apis/{i}
\* answers 200, GET /platform/apis lists an entry of that name, and PUT
\* /platform/apis/{i} with a valid payload answers 200.
C11_PlatformStateKept ==
  \A r, q \in Reqs :
    (Done(r) /\ CreatedApi(r, q))
      => /\ req[r].kind = "platform_get" => req[r].status = StatusOk
         /\ req[r].kind = "platform_list"
              => (req[r].status = StatusOk /\ req[q].body.name \in req[r].listed)
         /\ (req[r].kind = "platform_update"
             /\ ApiDefinition_validate(req[r].body))
              => req[r].status = StatusOk

C13_PlatformDeleteCascades ==
  \A r, q \in Reqs :
    (Done(r) /\ CreatedApi(r, q) /\ req[r].kind = "platform_delete")
      => /\ req[r].status = StatusNoContent
         /\ format_name(req[r].apiId, "-cluster") \notin ClusterNames
         /\ get_by_name(routes, format_name(req[r].apiId, "-routes")) = NoRow

\* The request was answered and no write was committed since.
ReadNow(r) == Done(r) /\ req[r].readAt = Len(log)
WroteLast(r) == Done(r) /\ Committed(r) /\ req[r].commitAt = Len(log)

Granted(r) ==
  /\ req[r].context.present
  /\ RequiredScopes(req[r].kind) \subseteq req[r].context.scopes

C16_OptionsBypassAuthentication ==
  \A r \in Reqs :
    (req[r].method = "OPTIONS" /\ req[r].pc # "received")
      => /\ ~req[r].consulted
         /\ req[r].layer >= 1
         /\ req[r].status # StatusUnauthorized

C16_Witness ==
  \E r \in Reqs :
    /\ req[r].method = "OPTIONS" /\ ~req[r].header.bearer
    /\ req[r].pc = "authenticated" /\ req[r].layer = 1

\* A PUT whose body names another record than its path.
Mismatched(r) ==
  /\ req[r].kind \in {"update", "service_update"}
  /\ req[r].body.name # req[r].name

\* C17: a PUT whose body name differs from the name in its path is answered
\* 400, on /route-configs/{name} and on /platform/services/{name}, and its
\* handling changes no stored record and triggers no refresh.
C17_UpdateNameMustMatch ==
  [][\A r \in Reqs :
       (Mismatched(r) /\ req[r].pc \notin {"idle", "done"} /\ req'[r] # req[r])
         => /\ req'[r].pc = "done"
            /\ req'[r].status = StatusBadRequest
            /\ routes' = routes /\ clusters' = clusters
            /\ log' = log /\ snapshot' = snapshot /\ lock' = lock]_vars

C17_Witness ==
  \E r, q \in Reqs :
    /\ Done(r) /\ Mismatched(r) /\ req[r].kind = "update"
    /\ validate_route_payload(req[r].body.rule)
    /\ req[r].status = StatusBadRequest
    /\ Done(q) /\ Mismatched(q) /\ req[q].kind = "service_update"
    /\ ServiceDefinition_validate(req[q].body)
    /\ req[q].status = StatusBadRequest
    /\ routes # {} /\ clusters = ClusterBodies

\* C18: a GET /route-configs/{name} that follows the last accepted create or
\* update of the name returns 200 with a config field-wise equal to that
\* payload: from_xds_config(to_xds_config(d)) = d through storage, scoped
\* filter configs and empty header / query-parameter lists included.
C18_ReadAfterWriteRoundTrip ==
  /\ \A d \in StoredRules : from_xds_config(to_xds_config(d)) = d
  /\ \A g, w \in Reqs :
       (/\ Done(g) /\ req[g].kind = "get" /\ req[g].readAt = Len(log)
        /\ req[w].kind \in {"create", "update"} /\ Committed(w)
        /\ req[w].commitAt = Len(log)
        /\ req[w].body.name = req[g].name)
         => /\ req[g].status = StatusOk
            /\ req[g].response.name = req[g].name
            /\ req[g].response.config = req[w].body.rule

C18_Witness ==
  \E g, w \in Reqs :
    /\ Done(g) /\ req[g].kind = "get" /\ req[g].readAt = Len(log)
    /\ req[g].status = StatusOk
    /\ Done(w) /\ req[w].kind = "update" /\ req[w].status = StatusOk
    /\ req[w].commitAt = Len(log)
    /\ req[w].body.name = req[g].name
    /\ req[w].body.rule = ScopedWeightedRule
    /\ req[g].response.config.weighted[1].typed_per_filter_config
         = {"local_ratelimit"}
    /\ req[g].response.config.headers = <<"x-tenant">>
    /\ req[g].response.config.query_parameters = <<>>

\* The last committed write is the delete that request d was answered 204
\* for.
Deleted(d) ==
  /\ Done(d) /\ req[d].kind = "delete" /\ req[d].status = StatusNoContent
  /\ req[d].commitAt = Len(log)

C20_SummariesRecomputed ==
  /\ \A rule \in SentRules \cup RouteRules :
       LET summary == summarize_route(rule)
       IN  /\ rule.path \in {"exact", "prefix"} => summary[1] = rule.value
           /\ rule.path = "regex" => summary[1] = <<"regex:">> \o rule.value
           /\ rule.path = "template"
                => summary[1] = <<"template:">> \o rule.value
           /\ rule = NoRule => summary = << <<"*">>, "unknown" >>
           /\ rule.action = "forward" => summary[2] = rule.cluster
           /\ rule.action = "weighted" => summary[2] = rule.weighted[1].name
           /\ rule.action = "redirect" => summary[2] = "__redirect__"
  /\ \A row \in routes :
       << row.path_prefix, row.cluster_name >>
         = summarize_route(from_xds_config(row.configuration))
  /\ \A w \in Reqs :
       (req[w].kind \in {"create", "update"} /\ Committed(w)
        /\ req[w].commitAt = Len(log))
         => LET row == get_by_name(routes, req[w].body.name)
            IN  /\ row.version = req[w].stored.version
                /\ << row.path_prefix, row.cluster_name >>
                     = summarize_route(req[w].body.rule)
  /\ \A w \in Reqs :
       (Done(w) /\ req[w].kind \in {"create", "update"}
        /\ req[w].body.rule = NoRule)
         => req[w].status = StatusBadRequest /\ ~Committed(w)

C20_Witness ==
  \E w \in Reqs :
    /\ Done(w) /\ req[w].kind = "update" /\ req[w].status = StatusOk
    /\ req[w].commitAt = Len(log)
    /\ req[w].body.rule = ScopedWeightedRule
    /\ LET row == get_by_name(routes, req[w].body.name)
       IN  /\ row.version = 3
           /\ row.path_prefix = <<"regex:", "api">>
           /\ row.cluster_name = "api-cluster"
           /\ \E old \in RowsOf(routes, row.name) :
                /\ old.version = 2
                /\ old.path_prefix = <<"template:", "api">>

\* The import request r was answered 201.
Imported(r) ==
  Done(r) /\ req[r].kind = "import" /\ req[r].status = StatusCreated

\* The operations of a document: (path index, method) pairs.
OperationsOf(spec) ==
  { pm \in (DOMAIN OpenApiPaths) \X PopulatedMethods :
      spec.paths[pm[1]][pm[2]].present }

CountOf(seq, x) == Cardinality({ i \in DOMAIN seq : seq[i] = x })

UnknownKeys == {"x-flowplane-custom", "x-flowplane-invalid-filter"}

\* C21: the import of an OpenAPI 3.x document answers 201 whatever unknown
\* x-flowplane-* keys its operations carry, and the response holds the
\* warning "Unknown flowplane tag: {key}" once per operation carrying the
\* key, the warnings of all operations together.
C21_UnknownTagsWarnOnly ==
  \A r \in Reqs :
    /\ (Done(r) /\ req[r].kind = "import" /\ req[r].body.openapi[1] = 3)
         => req[r].status = StatusCreated
    /\ Imported(r)
         => \A key \in UnknownKeys :
              CountOf(req[r].imported.warnings, UnknownTagWarning(key))
                = Cardinality(
                    { pm \in OperationsOf(req[r].body) :
                        \E i \in DOMAIN req[r].body.paths[pm[1]][pm[2]].unknown :
                          req[r].body.paths[pm[1]][pm[2]].unknown[i] = key })

C21_Witness ==
  \E r \in Reqs :
    /\ Imported(r)
    /\ CountOf(req[r].imported.warnings,
               UnknownTagWarning("x-flowplane-invalid-filter")) = 3
    /\ CountOf(req[r].imported.warnings,
               UnknownTagWarning("x-flowplane-custom")) = 1

\* C22: a route carries a rateLimit policy exactly when its
\* x-flowplane-ratelimit has an integer `requests` and a string `interval`,
\* and every x-flowplane-ratelimit lacking either adds a warning.
C22_MalformedRateLimitWarns ==
  \A r \in Reqs :
    Imported(r)
      => /\ \A pm \in OperationsOf(req[r].body) :
              LET tag == req[r].body.paths[pm[1]][pm[2]].ratelimit
              IN  \E i \in DOMAIN req[r].imported.routes :
                    /\ req[r].imported.routes[i].path = OpenApiPaths[pm[1]]
                    /\ req[r].imported.routes[i].method = to_uppercase(pm[2])
                    /\ req[r].imported.routes[i].policies.rate_limit
                         = (tag.present /\ tag.requests /\ tag.interval)
         /\ CountOf(req[r].imported.warnings, InvalidRateLimitWarning)
              = Cardinality(
                  { pm \in OperationsOf(req[r].body) :
                      LET tag == req[r].body.paths[pm[1]][pm[2]].ratelimit
                      IN  tag.present /\ ~(tag.requests /\ tag.interval) })

\* The first operation of a document: first path, then first method in the
\* order of HttpMethods.
FirstOperation(spec) ==
  LET p == CHOOSE p \in DOMAIN OpenApiPaths :
             /\ \E pm \in OperationsOf(spec) : pm[1] = p
             /\ \A pm \in OperationsOf(spec) : pm[1] >= p
      m == CHOOSE m \in DOMAIN HttpMethods :
             /\ <<p, HttpMethods[m]>> \in OperationsOf(spec)
             /\ \A k \in 1..(m - 1) :
                  <<p, HttpMethods[k]>> \notin OperationsOf(spec)
  IN  <<p, HttpMethods[m]>>

\* C23: the global policies of the imported ApiDefinition are the policies
\* of the first emitted route and of no other: absent when the first route
\* carries none, even if a later route carries some.
C23_GlobalPoliciesOfFirstRoute ==
  \A r \in Reqs :
    Imported(r)
      => IF OperationsOf(req[r].body) = {}
           THEN /\ req[r].imported.routes = <<>>
                /\ req[r].imported.policies = NoPolicies
           ELSE LET first == FirstOperation(req[r].body)
                IN  /\ req[r].imported.routes[1].path = OpenApiPaths[first[1]]
                    /\ req[r].imported.routes[1].method
                         = to_uppercase(first[2])
                    /\ req[r].imported.policies
                         = extract_flowplane_policies(
                             req[r].body.paths[first[1]][first[2]]).policies
                    /\ req[r].imported.policies
                         = req[r].imported.routes[1].policies

C23_Witness ==
  \E r \in Reqs :
    /\ Imported(r)
    /\ Len(req[r].imported.routes) = 3
    /\ ~req[r].imported.routes[1].policies.some
    /\ req[r].imported.routes[2].policies.rate_limit
    /\ req[r].imported.routes[3].policies.cors
    /\ req[r].imported.policies = NoPolicies

\* POST /platform/apis of request r was answered 201.
Lowered(r) ==
  Done(r) /\ req[r].kind = "platform_create" /\ req[r].status = StatusCreated

\* C24: in the lowered route configuration, the Forward timeoutSeconds of
\* each route rule is the route's policies.timeout.request when the route
\* sets it, else the global policies.timeout.request.
C24_RoutePoliciesOverrideGlobal ==
  \A r \in Reqs :
    Lowered(r)
      => \A i \in DOMAIN req[r].body.routes :
           req[r].derived.route_config.routes[i].timeout_seconds
             = IF timeout_request(req[r].body.routes[i].policies).some
                 THEN timeout_request(req[r].body.routes[i].policies)
                 ELSE timeout_request(req[r].body.policies)

\* An ApiDefinition that violates a data-model constraint at some level.
ViolatesConstraints(api) ==
  \/ Len(api.routes) = 0
  \/ api.upstream.endpoints = 0
  \/ \E i \in DOMAIN api.routes : api.routes[i].methods = 0

\* C26: Platform create and update answer 400, creating nothing, for an
\* ApiDefinition with an empty routes list, an empty upstream.endpoints list
\* or a route with an empty methods list; Platform service create answers
\* 400 for an empty endpoints list.
C26_NestedConstraintsRejected ==
  \A r \in Reqs :
    Done(r)
      => /\ (/\ req[r].kind \in {"platform_create", "platform_update"}
             /\ ViolatesConstraints(req[r].body))
              => /\ req[r].status = StatusBadRequest
                 /\ req[r].derived = NoDerived
                 /\ routes = {} /\ clusters = {}
         /\ (req[r].kind = "service_create" /\ req[r].body.endpoints = 0)
              => req[r].status = StatusBadRequest /\ clusters = {}

\* C29: every Forward action of the derived RouteConfiguration "{id}-routes"
\* names the derived Cluster "{id}-cluster" of the same ApiDefinition.
C29_DerivedRoutesNameDerivedCluster ==
  \A r \in Reqs :
    Lowered(r)
      => /\ req[r].derived.cluster.name
              = format_name(req[r].apiId, "-cluster")
         /\ req[r].derived.route_config.name
              = format_name(req[r].apiId, "-routes")
         /\ \A i \in DOMAIN req[r].derived.route_config.routes :
              req[r].derived.route_config.routes[i].cluster
                = req[r].derived.cluster.name

\* C25: a create, update or delete whose repository write has committed
\* does not terminate before its refresh has completed, also when the client
\* disconnects after the commit.
C25_CommittedWritesRefresh ==
  \A r \in Reqs :
    (Done(r) /\ req[r].kind \in WriteKinds /\ Committed(r))
      => Refreshed(r) \/ req[r].status = StatusInternal

\* Request r lowered and projected its service at least `rounds` times.
RoundTripped(r, rounds) ==
  /\ req[r].kind = "lower"
  /\ \/ req[r].lowering.round > rounds
     \/ req[r].lowering.round = rounds /\ req[r].pc \in {"projected", "done"}

Floored(duration) ==
  IF duration.some
    THEN [some |-> TRUE, value |-> duration.value - (duration.value % 1000)]
    ELSE NoDuration

\* C27: lowering maps intervalMs and baseEjectionTimeMs to floor(ms / 1000)
\* seconds, absent staying absent; the projection maps seconds to
\* seconds * 1000; lowering then projecting yields ms - (ms mod 1000), which
\* is the input exactly when it is a multiple of 1000 and is a fixed point
\* of a second round trip.
C27_OutlierDurationsFloor ==
  \A r \in Reqs :
    LET od == req[r].lowering.service.outlier_detection
    IN  /\ (req[r].kind = "lower" /\ req[r].lowering.round = 1)
             => LET lowered == req[r].lowering.cluster.outlier_detection
                IN  /\ lowered.some = od.some
                    /\ lowered.interval.some = od.interval.some
                    /\ lowered.base_ejection_time.some
                         = od.base_ejection_time.some
                    /\ od.interval.some
                         => /\ lowered.interval.value * 1000
                                 <= od.interval.value
                            /\ od.interval.value
                                 < (lowered.interval.value + 1) * 1000
                    /\ od.base_ejection_time.some
                         => /\ lowered.base_ejection_time.value * 1000
                                 <= od.base_ejection_time.value
                            /\ od.base_ejection_time.value
                                 < (lowered.base_ejection_time.value + 1) * 1000
        /\ RoundTripped(r, 1)
             => LET first == req[r].lowering.first.outlier_detection
                IN  /\ first.some = od.some
                    /\ first.interval = Floored(od.interval)
                    /\ first.base_ejection_time
                         = Floored(od.base_ejection_time)
                    /\ od.interval.some
                         => (first.interval = od.interval
                               <=> od.interval.value % 1000 = 0)
        /\ RoundTripped(r, 2)
             => req[r].lowering.projected.outlier_detection
                  = req[r].lowering.first.outlier_detection

C27_Witness ==
  \E r \in Reqs :
    /\ RoundTripped(r, 2) /\ Done(r)
    /\ req[r].lowering.service.outlier_detection.interval
         = [some |-> TRUE, value |-> 1999]
    /\ req[r].lowering.projected.outlier_detection.interval
         = [some |-> TRUE, value |-> 1000]
    /\ req[r].lowering.service.outlier_detection.base_ejection_time
         = NoDuration
    /\ req[r].lowering.projected.outlier_detection.base_ejection_time
         = NoDuration

\* C28: each of the five strategies is lowered to its upper-case string and
\* projected back to itself, and any other or absent lb_policy is projected
\* to RoundRobin, by the service handlers and by the platform transformers.
C28_LoadBalancingRoundTrips ==
  \A r \in Reqs :
    /\ (req[r].kind = "lower" /\ req[r].lowering.round = 1)
         => /\ req[r].lowering.cluster.lb_policy.some
            /\ req[r].lowering.cluster.lb_policy.value
                 = load_balancing_to_string(
                     req[r].lowering.service.load_balancing)
    /\ RoundTripped(r, 1)
         => req[r].lowering.first.load_balancing
              = req[r].lowering.service.load_balancing
    /\ (Done(r) /\ req[r].kind = "project")
         => LET lb == req[r].lowering.cluster.lb_policy
            IN  (~lb.some \/ lb.value = "CLUSTER_PROVIDED")
                  => req[r].lowering.projected.load_balancing = "RoundRobin"

\* The statuses with which a route-configuration write is rejected.
RejectedStatuses == {StatusBadRequest, StatusNotFound, StatusConflict}

\* The request in slot q is a route-configuration write answered with a
\* rejection.
Rejected(q) ==
  q.kind \in WriteKinds /\ q.pc = "done" /\ q.status \in RejectedStatuses

\* C30: a route-configuration write that is rejected (400 for a failed
\* validation or a name mismatch, 404 for an unknown name on update or
\* delete, 409 for a duplicate name or the protected default gateway)
\* inserts, re-versions and removes no row and invokes no refresh; an update
\* of a name that is not stored never creates it.
C30_RejectedWriteChangesNothing ==
  [][\A r \in Reqs :
       /\ (req[r].kind \in WriteKinds /\ req'[r] # req[r] /\ Rejected(req'[r]))
            => /\ routes' = routes /\ log' = log /\ snapshot' = snapshot
               /\ lock' = lock
               /\ req'[r].commitAt = 0 /\ req'[r].refreshAt = 0
               /\ \A i \in (req[r].startAt + 1)..Len(log) : log[i].by # r
       /\ (req[r].kind = "update" /\ req[r].pc = "validated"
             /\ get_by_name(routes, req[r].name) = NoRow
             /\ req'[r] # req[r])
            => /\ Rejected(req'[r]) /\ req'[r].status = StatusNotFound
               /\ routes' = routes]_vars

C30_Witness ==
  \E r \in Reqs :
    /\ Rejected(req[r]) /\ req[r].kind = "update"
    /\ req[r].status = StatusNotFound
    /\ validate_route_payload(req[r].body.rule)
    /\ get_by_name(routes, req[r].name) = NoRow
    /\ routes # {} /\ log # <<>>
    /\ snapshot = [at |-> Len(log), view |-> View(routes)]

====
